---- MODULE Spec2Model ----
(***************************************************************************)
(* Zone transfer engine of package dns (xfr.go): Transfer.In with the      *)
(* inAxfr / inIxfr reply loops, the authenticated message channel         *)
(* Transfer.ReadMsg / Transfer.WriteMsg, and the reply task of             *)
(* Transfer.Out.                                                           *)
(*                                                                         *)
(* The message codec (Msg.Pack / Msg.Unpack), the TSIG primitive           *)
(* (TsigGenerate / TsigVerify) and Conn are not part of xfr.go; they are   *)
(* modelled at their interface: wire bytes are a record of numeric         *)
(* sections, a MAC is the tuple of the values it is computed over.         *)
(*                                                                         *)
(* Time is not modelled: an expired read deadline is a failed Read.  A     *)
(* query has one question.  In is called on a Transfer with no transfer    *)
(* task running (no two transfers share a Transfer at the same time).      *)
(***************************************************************************)
EXTENDS Integers, Sequences, FiniteSets, TLC

\* ---------------------------------------------------------------- bounds
\* replies the peer sends in one transfer before its reads only fail
MaxReplies == 3
\* envelopes a producer hands to Out
MaxEnvelopes == 3

\* ------------------------------------------------------------- vocabulary
TypeA    == "A"
TypeSOA  == "SOA"
TypeIXFR == "IXFR"
TypeAXFR == "AXFR"

Nil       == "nil"
ErrId     == "ErrId"
ErrSoa    == "ErrSoa"
ErrSecret == "ErrSecret"
ErrSig    == "ErrSig"
ErrPack   == "ErrPack"
ErrUnpack == "ErrUnpack"
ErrRead   == "ErrRead"
ErrWrite  == "ErrWrite"
ErrDial   == "ErrDial"

\* transaction ids (queries carry id 1, replies either id) and the serials
\* of SOA records
Ids     == {1, 2}
Serials == {5, 6}

\* resource records: a SOA with its serial, or some other record
SOA(s)  == [Rrtype |-> TypeSOA, Serial |-> s]
OtherRR == [Rrtype |-> TypeA, Serial |-> 0]
RRs     == {SOA(s) : s \in Serials} \cup {OtherRR}

\* answer sections: empty, one record, or a first and a last record
AnswerLens == 0..2
Answers == UNION {[1..n -> RRs] : n \in AnswerLens}

\* key names: one with a secret in the table, one without
KnownKey   == "axfr."
UnknownKey == "other."
Secret     == "c2VjcmV0"
NoMAC      == <<>>
NoTsig     == <<>>

\* Transfer.TsigSecret: a nil map, or a table with one entry
NilSecrets == [isnil |-> TRUE,  tab |-> [k \in {} |-> Secret]]
OneSecret  == [isnil |-> FALSE, tab |-> [k \in {KnownKey} |-> Secret]]

\* a decoded message; NilMsg is the nil *Msg
Msg(id, question, answer, tsig) ==
    [isnil |-> FALSE, Id |-> id, Question |-> question, Answer |-> answer, Tsig |-> tsig]
NilMsg == [isnil |-> TRUE, Id |-> 0, Question |-> <<>>, Answer |-> <<>>, Tsig |-> NoTsig]

Envelope(rr, err) == [RR |-> rr, Error |-> err]

\* ------------------------------------------------------------------ codec
\* wire form of a record: a SOA is its serial, any other record is 0
RRCode(rr) == IF rr.Rrtype = TypeSOA THEN rr.Serial ELSE 0
RRDecode(c) == IF c = 0 THEN OtherRR ELSE SOA(c)

\* the wire bytes: header (id, answer count), question, answer and
\* additional (TSIG) sections
Pack(m) ==
    [hdr |-> <<m.Id, Len(m.Answer)>>,
     qd  |-> m.Question,
     an  |-> [i \in 1..Len(m.Answer) |-> RRCode(m.Answer[i])],
     ar  |-> m.Tsig]

\* decoding fails when the header's count disagrees with the answer section
Unpack(p) ==
    IF p.hdr[2] # Len(p.an)
    THEN [m |-> NilMsg, err |-> ErrUnpack]
    ELSE [m   |-> Msg(p.hdr[1], p.qd, [i \in 1..Len(p.an) |-> RRDecode(p.an[i])], p.ar),
          err |-> Nil]

\* Msg.IsTsig: the TSIG record of the message, NoTsig when it has none
IsTsig(m) == m.Tsig

\* ------------------------------------------------------------------- TSIG
\* the bytes the MAC covers: the message without its TSIG record
StripTsig(p) == [p EXCEPT !.ar = NoTsig]

\* the MAC is determined by the secret, the prior MAC, the mode and the bytes
TsigMAC(body, secret, requestMAC, timersOnly) ==
    <<secret, requestMAC, timersOnly, body>>

TsigGenerate(m, secret, requestMAC, timersOnly, packOK) ==
    IF ~packOK
    THEN [out |-> Pack(NilMsg), mac |-> NoMAC, err |-> ErrPack]
    ELSE LET body == StripTsig(Pack(m))
             mac  == TsigMAC(body, secret, requestMAC, timersOnly)
         IN  [out |-> [body EXCEPT !.ar = <<m.Tsig[1], mac>>],
              mac |-> mac,
              err |-> Nil]

TsigVerify(p, secret, requestMAC, timersOnly) ==
    IF p.ar[2] = TsigMAC(StripTsig(p), secret, requestMAC, timersOnly)
    THEN Nil
    ELSE ErrSig

\* ReadMsg verifying every message in full-message mode, whatever the
\* session's timersOnly flag
ReadMsg_FullModeOnly(rd, secrets, requestMAC, timersOnly) ==
    IF rd.err # Nil /\ rd.n = 0
    THEN [m |-> NilMsg, err |-> rd.err, mac |-> requestMAC, timersOnly |-> timersOnly]
    ELSE LET u == Unpack(rd.p) IN
         IF u.err # Nil
         THEN [m |-> NilMsg, err |-> u.err, mac |-> requestMAC, timersOnly |-> timersOnly]
         ELSE LET ts == IsTsig(u.m) IN
              IF ts # NoTsig /\ ~secrets.isnil
              THEN IF ts[1] \notin DOMAIN secrets.tab
                   THEN [m |-> u.m, err |-> ErrSecret,
                         mac |-> requestMAC, timersOnly |-> timersOnly]
                   ELSE [m   |-> u.m,
                         err |-> TsigVerify(rd.p, secrets.tab[ts[1]], requestMAC, FALSE),
                         mac |-> requestMAC, timersOnly |-> timersOnly]
              ELSE [m |-> u.m, err |-> rd.err, mac |-> requestMAC, timersOnly |-> timersOnly]

\* ReadMsg keeping the MAC of a reply it has verified as the prior MAC of
\* the chain
ReadMsg_KeepsMAC(rd, secrets, requestMAC, timersOnly) ==
    IF rd.err # Nil /\ rd.n = 0
    THEN [m |-> NilMsg, err |-> rd.err, mac |-> requestMAC, timersOnly |-> timersOnly]
    ELSE LET u == Unpack(rd.p) IN
         IF u.err # Nil
         THEN [m |-> NilMsg, err |-> u.err, mac |-> requestMAC, timersOnly |-> timersOnly]
         ELSE LET ts == IsTsig(u.m) IN
              IF ts # NoTsig /\ ~secrets.isnil
              THEN IF ts[1] \notin DOMAIN secrets.tab
                   THEN [m |-> u.m, err |-> ErrSecret,
                         mac |-> requestMAC, timersOnly |-> timersOnly]
                   ELSE LET e == TsigVerify(rd.p, secrets.tab[ts[1]], requestMAC, timersOnly)
                        IN  [m   |-> u.m,
                             err |-> e,
                             mac |-> IF e = Nil THEN ts[2] ELSE requestMAC,
                             timersOnly |-> timersOnly]
              ELSE [m |-> u.m, err |-> rd.err, mac |-> requestMAC, timersOnly |-> timersOnly]

\* ------------------------------------------------- authenticated channel
\* Transfer.ReadMsg on the outcome rd = [n, err, p] of t.Read: the message
\* and the error returned, and the chain state it leaves in the Transfer
ReadMsg(rd, secrets, requestMAC, timersOnly) ==
    IF rd.err # Nil /\ rd.n = 0
    THEN [m |-> NilMsg, err |-> rd.err, mac |-> requestMAC, timersOnly |-> timersOnly]
    ELSE LET u == Unpack(rd.p) IN
         IF u.err # Nil
         THEN [m |-> NilMsg, err |-> u.err, mac |-> requestMAC, timersOnly |-> timersOnly]
         ELSE LET ts == IsTsig(u.m) IN
              IF ts # NoTsig /\ ~secrets.isnil
              THEN IF ts[1] \notin DOMAIN secrets.tab
                   THEN [m |-> u.m, err |-> ErrSecret,
                         mac |-> requestMAC, timersOnly |-> timersOnly]
                   ELSE [m   |-> u.m,
                         err |-> TsigVerify(rd.p, secrets.tab[ts[1]], requestMAC, timersOnly),
                         mac |-> requestMAC, timersOnly |-> timersOnly]
              ELSE [m |-> u.m, err |-> rd.err, mac |-> requestMAC, timersOnly |-> timersOnly]

\* Transfer.WriteMsg: the error returned, the bytes handed to t.Write
\* (written = FALSE when none were) and the new t.tsigRequestMAC
WriteMsg(m, secrets, requestMAC, timersOnly, packOK, writeOK) ==
    LET ts == IsTsig(m) IN
    IF ts # NoTsig /\ ~secrets.isnil
    THEN IF ts[1] \notin DOMAIN secrets.tab
         THEN [err |-> ErrSecret, written |-> FALSE, out |-> Pack(NilMsg), mac |-> requestMAC]
         ELSE LET g == TsigGenerate(m, secrets.tab[ts[1]], requestMAC, timersOnly, packOK) IN
              IF g.err # Nil
              THEN [err |-> g.err, written |-> FALSE, out |-> g.out, mac |-> g.mac]
              ELSE IF ~writeOK
                   THEN [err |-> ErrWrite, written |-> TRUE, out |-> g.out, mac |-> g.mac]
                   ELSE [err |-> Nil, written |-> TRUE, out |-> g.out, mac |-> g.mac]
    ELSE IF ~packOK
         THEN [err |-> ErrPack, written |-> FALSE, out |-> Pack(NilMsg), mac |-> requestMAC]
         ELSE IF ~writeOK
              THEN [err |-> ErrWrite, written |-> TRUE, out |-> Pack(m), mac |-> requestMAC]
              ELSE [err |-> Nil, written |-> TRUE, out |-> Pack(m), mac |-> requestMAC]

\* isSOAFirst looking at the last record
isSOAFirst_Last(in) ==
    IF Len(in.Answer) > 0
    THEN in.Answer[Len(in.Answer)].Rrtype = TypeSOA
    ELSE FALSE

isSOAFirst(in) ==
    IF Len(in.Answer) > 0
    THEN in.Answer[1].Rrtype = TypeSOA
    ELSE FALSE

isSOALast(in) ==
    IF Len(in.Answer) > 0
    THEN in.Answer[Len(in.Answer)].Rrtype = TypeSOA
    ELSE FALSE

\* --------------------------------------------------------- reply loops
\* inAxfr without the guard for a first reply of one record
inAxfr_LoneSOAEnds(id, first_, timersOnly, r) ==
    IF r.err # Nil
    THEN [env |-> Envelope(<<>>, r.err), ret |-> TRUE,
          first |-> first_, timersOnly |-> timersOnly]
    ELSE IF id # r.m.Id
    THEN [env |-> Envelope(r.m.Answer, ErrId), ret |-> TRUE,
          first |-> first_, timersOnly |-> timersOnly]
    ELSE IF first_ /\ ~isSOAFirst(r.m)
    THEN [env |-> Envelope(r.m.Answer, ErrSoa), ret |-> TRUE,
          first |-> first_, timersOnly |-> timersOnly]
    ELSE [env |-> Envelope(r.m.Answer, Nil), ret |-> isSOALast(r.m),
          first |-> FALSE, timersOnly |-> TRUE]

\* inAxfr going on with the next reply after it has sent ErrSoa
inAxfr_ErrSoaContinues(id, first_, timersOnly, r) ==
    IF r.err # Nil
    THEN [env |-> Envelope(<<>>, r.err), ret |-> TRUE,
          first |-> first_, timersOnly |-> timersOnly]
    ELSE IF id # r.m.Id
    THEN [env |-> Envelope(r.m.Answer, ErrId), ret |-> TRUE,
          first |-> first_, timersOnly |-> timersOnly]
    ELSE IF first_ /\ ~isSOAFirst(r.m)
    THEN [env |-> Envelope(r.m.Answer, ErrSoa), ret |-> FALSE,
          first |-> first_, timersOnly |-> timersOnly]
    ELSE IF first_ /\ Len(r.m.Answer) = 1
    THEN [env |-> Envelope(r.m.Answer, Nil), ret |-> FALSE,
          first |-> FALSE, timersOnly |-> TRUE]
    ELSE [env |-> Envelope(r.m.Answer, Nil), ret |-> isSOALast(r.m),
          first |-> FALSE, timersOnly |-> TRUE]

\* one pass of the loop of inAxfr on the result r of ReadMsg: the envelope
\* sent, whether the function returns after the send, and the new values of
\* first and t.tsigTimersOnly
inAxfr(id, first_, timersOnly, r) ==
    IF r.err # Nil
    THEN [env |-> Envelope(<<>>, r.err), ret |-> TRUE,
          first |-> first_, timersOnly |-> timersOnly]
    ELSE IF id # r.m.Id
    THEN [env |-> Envelope(r.m.Answer, ErrId), ret |-> TRUE,
          first |-> first_, timersOnly |-> timersOnly]
    ELSE IF first_ /\ ~isSOAFirst(r.m)
    THEN [env |-> Envelope(r.m.Answer, ErrSoa), ret |-> TRUE,
          first |-> first_, timersOnly |-> timersOnly]
    ELSE IF first_ /\ Len(r.m.Answer) = 1
    THEN [env |-> Envelope(r.m.Answer, Nil), ret |-> FALSE,
          first |-> FALSE, timersOnly |-> TRUE]
    ELSE [env |-> Envelope(r.m.Answer, Nil), ret |-> isSOALast(r.m),
          first |-> FALSE, timersOnly |-> TRUE]

\* one pass of the loop of inIxfr; panic = TRUE when the pass faults
\* (r.m is nil at line 114, or the answer section is empty at line 142)
IxfrPanic(first_, serial_, timersOnly) ==
    [env |-> Envelope(<<>>, Nil), ret |-> TRUE, panic |-> TRUE,
     first |-> first_, serial |-> serial_, timersOnly |-> timersOnly]

\* inIxfr comparing the ids only after it has looked at the first reply's SOA
inIxfr_IdAfterSoa(id, first_, serial_, timersOnly, r) ==
    IF r.err # Nil
    THEN IF r.m.isnil
         THEN IxfrPanic(first_, serial_, timersOnly)
         ELSE [env |-> Envelope(r.m.Answer, r.err), ret |-> TRUE, panic |-> FALSE,
               first |-> first_, serial |-> serial_, timersOnly |-> timersOnly]
    ELSE IF first_ /\ Len(r.m.Answer) = 1 /\ isSOAFirst(r.m)
    THEN [env |-> Envelope(r.m.Answer, Nil), ret |-> TRUE, panic |-> FALSE,
          first |-> first_, serial |-> serial_, timersOnly |-> timersOnly]
    ELSE IF first_ /\ ~isSOAFirst(r.m)
    THEN [env |-> Envelope(r.m.Answer, ErrSoa), ret |-> TRUE, panic |-> FALSE,
          first |-> first_, serial |-> serial_, timersOnly |-> timersOnly]
    ELSE IF id # r.m.Id
    THEN [env |-> Envelope(r.m.Answer, ErrId), ret |-> TRUE, panic |-> FALSE,
          first |-> first_, serial |-> serial_, timersOnly |-> timersOnly]
    ELSE LET sr == IF first_ THEN r.m.Answer[1].Serial ELSE serial_ IN
         IF Len(r.m.Answer) = 0
         THEN IxfrPanic(FALSE, sr, TRUE)
         ELSE LET v == r.m.Answer[Len(r.m.Answer)] IN
              [env |-> Envelope(r.m.Answer, Nil),
               ret |-> (v.Rrtype = TypeSOA /\ v.Serial = sr),
               panic |-> FALSE,
               first |-> FALSE, serial |-> sr, timersOnly |-> TRUE]

\* inIxfr going on with the next reply after a first reply of one SOA, as
\* inAxfr does
inIxfr_NoChangeContinues(id, first_, serial_, timersOnly, r) ==
    IF r.err # Nil
    THEN IF r.m.isnil
         THEN IxfrPanic(first_, serial_, timersOnly)
         ELSE [env |-> Envelope(r.m.Answer, r.err), ret |-> TRUE, panic |-> FALSE,
               first |-> first_, serial |-> serial_, timersOnly |-> timersOnly]
    ELSE IF id # r.m.Id
    THEN [env |-> Envelope(r.m.Answer, ErrId), ret |-> TRUE, panic |-> FALSE,
          first |-> first_, serial |-> serial_, timersOnly |-> timersOnly]
    ELSE IF first_ /\ Len(r.m.Answer) = 1 /\ isSOAFirst(r.m)
    THEN [env |-> Envelope(r.m.Answer, Nil), ret |-> FALSE, panic |-> FALSE,
          first |-> FALSE, serial |-> r.m.Answer[1].Serial, timersOnly |-> TRUE]
    ELSE IF first_ /\ ~isSOAFirst(r.m)
    THEN [env |-> Envelope(r.m.Answer, ErrSoa), ret |-> TRUE, panic |-> FALSE,
          first |-> first_, serial |-> serial_, timersOnly |-> timersOnly]
    ELSE LET sr == IF first_ THEN r.m.Answer[1].Serial ELSE serial_ IN
         IF Len(r.m.Answer) = 0
         THEN IxfrPanic(FALSE, sr, TRUE)
         ELSE LET v == r.m.Answer[Len(r.m.Answer)] IN
              [env |-> Envelope(r.m.Answer, Nil),
               ret |-> (v.Rrtype = TypeSOA /\ v.Serial = sr),
               panic |-> FALSE,
               first |-> FALSE, serial |-> sr, timersOnly |-> TRUE]

\* inIxfr applying the test of the last record, and the timersOnly
\* assignment, to replies after the first only
inIxfr_FirstNeverEnds(id, first_, serial_, timersOnly, r) ==
    IF r.err # Nil
    THEN IF r.m.isnil
         THEN IxfrPanic(first_, serial_, timersOnly)
         ELSE [env |-> Envelope(r.m.Answer, r.err), ret |-> TRUE, panic |-> FALSE,
               first |-> first_, serial |-> serial_, timersOnly |-> timersOnly]
    ELSE IF id # r.m.Id
    THEN [env |-> Envelope(r.m.Answer, ErrId), ret |-> TRUE, panic |-> FALSE,
          first |-> first_, serial |-> serial_, timersOnly |-> timersOnly]
    ELSE IF first_ /\ Len(r.m.Answer) = 1 /\ isSOAFirst(r.m)
    THEN [env |-> Envelope(r.m.Answer, Nil), ret |-> TRUE, panic |-> FALSE,
          first |-> first_, serial |-> serial_, timersOnly |-> timersOnly]
    ELSE IF first_ /\ ~isSOAFirst(r.m)
    THEN [env |-> Envelope(r.m.Answer, ErrSoa), ret |-> TRUE, panic |-> FALSE,
          first |-> first_, serial |-> serial_, timersOnly |-> timersOnly]
    ELSE IF first_
    THEN [env |-> Envelope(r.m.Answer, Nil), ret |-> FALSE, panic |-> FALSE,
          first |-> FALSE, serial |-> r.m.Answer[1].Serial, timersOnly |-> timersOnly]
    ELSE IF Len(r.m.Answer) = 0
         THEN IxfrPanic(FALSE, serial_, TRUE)
         ELSE LET v == r.m.Answer[Len(r.m.Answer)] IN
              [env |-> Envelope(r.m.Answer, Nil),
               ret |-> (v.Rrtype = TypeSOA /\ v.Serial = serial_),
               panic |-> FALSE,
               first |-> FALSE, serial |-> serial_, timersOnly |-> TRUE]

inIxfr(id, first_, serial_, timersOnly, r) ==
    IF r.err # Nil
    THEN IF r.m.isnil
         THEN IxfrPanic(first_, serial_, timersOnly)
         ELSE [env |-> Envelope(r.m.Answer, r.err), ret |-> TRUE, panic |-> FALSE,
               first |-> first_, serial |-> serial_, timersOnly |-> timersOnly]
    ELSE IF id # r.m.Id
    THEN [env |-> Envelope(r.m.Answer, ErrId), ret |-> TRUE, panic |-> FALSE,
          first |-> first_, serial |-> serial_, timersOnly |-> timersOnly]
    ELSE IF first_ /\ Len(r.m.Answer) = 1 /\ isSOAFirst(r.m)
    THEN [env |-> Envelope(r.m.Answer, Nil), ret |-> TRUE, panic |-> FALSE,
          first |-> first_, serial |-> serial_, timersOnly |-> timersOnly]
    ELSE IF first_ /\ ~isSOAFirst(r.m)
    THEN [env |-> Envelope(r.m.Answer, ErrSoa), ret |-> TRUE, panic |-> FALSE,
          first |-> first_, serial |-> serial_, timersOnly |-> timersOnly]
    ELSE LET sr == IF first_ THEN r.m.Answer[1].Serial ELSE serial_ IN
         IF Len(r.m.Answer) = 0
         THEN IxfrPanic(FALSE, sr, TRUE)
         ELSE LET v == r.m.Answer[Len(r.m.Answer)] IN
              [env |-> Envelope(r.m.Answer, Nil),
               ret |-> (v.Rrtype = TypeSOA /\ v.Serial = sr),
               panic |-> FALSE,
               first |-> FALSE, serial |-> sr, timersOnly |-> TRUE]

\* ------------------------------------------------------------------ peer
\* what the peer puts in the additional section of a reply: nothing, a TSIG
\* record made for the client's chain state, one made in the other mode, one
\* under a key the client has no secret for, or one with a wrong MAC
PeerSign(p, choice, requestMAC, timersOnly) ==
    CASE choice = "none"    -> p
      [] choice = "good"    -> [p EXCEPT !.ar = <<KnownKey, TsigMAC(p, Secret, requestMAC, timersOnly)>>]
      [] choice = "stale"   -> [p EXCEPT !.ar = <<KnownKey, TsigMAC(p, Secret, requestMAC, ~timersOnly)>>]
      [] choice = "unknown" -> [p EXCEPT !.ar = <<UnknownKey, TsigMAC(p, Secret, requestMAC, timersOnly)>>]
      [] choice = "forged"  -> [p EXCEPT !.ar = <<KnownKey, <<"forged">>>>]

\* bytes whose header announces a record the answer section does not hold
Malformed == [hdr |-> <<1, 1>>, qd |-> <<>>, an |-> <<>>, ar |-> NoTsig]

\* replies of every id and answer section, unsigned or signed for the
\* client's chain state
PeerWires(requestMAC, timersOnly) ==
    {PeerSign(Pack(Msg(i, <<>>, a, NoTsig)), c, requestMAC, timersOnly) :
        i \in Ids, a \in Answers, c \in {"none", "good"}}

\* replies whose TSIG record the client cannot accept
BadAnswers == {<<>>, <<SOA(5), OtherRR>>}
BadWires(requestMAC, timersOnly) ==
    {PeerSign(Pack(Msg(1, <<>>, a, NoTsig)), c, requestMAC, timersOnly) :
        a \in BadAnswers, c \in {"stale", "unknown", "forged"}}

\* outcomes of t.Read: nothing read and an error, bytes read, or bytes read
\* together with an error; after MaxReplies replies the read deadline expires
ReadOutcomes(requestMAC, timersOnly, nreads) ==
    {[n |-> 0, err |-> ErrRead, p |-> Malformed]} \cup
    IF nreads < MaxReplies
    THEN {[n |-> 1, err |-> Nil, p |-> p] :
             p \in {Malformed} \cup PeerWires(requestMAC, timersOnly)
                               \cup BadWires(requestMAC, timersOnly)}
         \cup {[n |-> 1, err |-> ErrRead, p |-> Pack(Msg(1, <<>>, a, NoTsig))] : a \in BadAnswers}
    ELSE {}

\* what fails in a call of In: nothing, the dial, the encoding or the write
Failures == {"none", "dial", "pack", "write"}

\* the queries a caller hands to In
Queries ==
    {Msg(1, <<qt>>, <<>>, ts) :
        qt \in {TypeAXFR, TypeIXFR, TypeA},
        ts \in {NoTsig, <<KnownKey, NoMAC>>, <<UnknownKey, NoMAC>>}}

\* ------------------------------------------------------------------ state
VARIABLES
    TsigSecret,      \* Transfer.TsigSecret
    tsigTimersOnly,  \* Transfer.tsigTimersOnly
    tsigRequestMAC,  \* Conn.tsigRequestMAC of the current t.Conn
    conn,            \* t.Conn.Conn: "nil", "open" or "closed"
    env,             \* the channel made by In: "nil", "open" or "closed"
    inErr,           \* the error In returned
    kind,            \* the function the task runs: "none", "axfr", "ixfr"
    id,              \* its id parameter
    pc,              \* the task's position
    first,           \* local first
    serial,          \* local serial of inIxfr
    sending,         \* the envelope of the send the task is blocked in
    ret,             \* whether the task returns after that send
    panicking,       \* the task is unwinding from a runtime panic
    reads,           \* results of ReadMsg in this transfer, in order
    delivered,       \* envelopes the consumer has received from env
    closes,          \* times close(c) has run on env
    transfer,        \* the call of In this state follows: "none", "first", "later"
    rt,              \* a message on its way through the channel, see ChanWrite
    inTsig,          \* the message the task holds carried a TSIG record
    srv              \* the reply task of Out, its source and its writer, see Out

vars == <<TsigSecret, tsigTimersOnly, tsigRequestMAC, conn, env, inErr, kind, id, pc,
          first, serial, sending, ret, panicking, reads, delivered, closes, transfer, rt,
          inTsig, srv>>

\* the variables of the transfer task and its stream
engine == <<conn, env, inErr, kind, id, pc, first, serial, sending, ret, panicking,
            reads, delivered, closes, transfer, inTsig>>

NoEnvelope == Envelope(<<>>, Nil)

\* what the transfer keeps of a ReadMsg result: the message without its
\* additional section, and the error
Seen(r) == [isnil |-> r.m.isnil, Id |-> r.m.Id, Answer |-> r.m.Answer, err |-> r.err]

\* Out has not been called: its source is open and empty, its writer in
\* full mode
SrvIdle == [pc |-> "idle", ch |-> "open", pending |-> <<>>, nsent |-> 0,
            received |-> <<>>, Answer |-> <<>>, writes |-> <<>>, timersOnly |-> FALSE]

\* no message is on its way
RtIdle == [pc |-> "idle", m |-> NilMsg, mac |-> NoMAC, timersOnly |-> FALSE,
           out |-> Malformed, res |-> [m |-> NilMsg, err |-> Nil],
           rd |-> [n |-> 0, err |-> Nil, p |-> Malformed]]

Init ==
    /\ TsigSecret \in {NilSecrets, OneSecret}
    /\ tsigTimersOnly = FALSE
    /\ tsigRequestMAC = NoMAC
    /\ conn = "nil"
    /\ env = "nil"
    /\ inErr = Nil
    /\ kind = "none"
    /\ id = 0
    /\ pc = "none"
    /\ first = TRUE
    /\ serial = 0
    /\ sending = NoEnvelope
    /\ ret = FALSE
    /\ panicking = FALSE
    /\ reads = <<>>
    /\ delivered = <<>>
    /\ closes = 0
    /\ transfer = "none"
    /\ rt = RtIdle
    /\ inTsig = FALSE
    /\ srv = SrvIdle

\* Transfer.In: a fresh Conn, dial, write the query, make the channel and
\* start the task the query type selects
In(q, fail) ==
    /\ pc \in {"none", "done"}
    /\ transfer' = IF transfer = "none" THEN "first" ELSE "later"
    /\ reads' = <<>>
    /\ delivered' = <<>>
    /\ closes' = 0
    /\ sending' = NoEnvelope
    /\ ret' = FALSE
    /\ panicking' = FALSE
    /\ first' = TRUE
    /\ serial' = 0
    /\ id' = q.Id
    /\ IF fail = "dial"
       THEN /\ conn' = "nil"
            /\ tsigRequestMAC' = NoMAC
            /\ inErr' = ErrDial
            /\ env' = "nil"
            /\ kind' = "none"
            /\ pc' = "none"
       ELSE LET w == WriteMsg(q, TsigSecret, NoMAC, tsigTimersOnly,
                              fail # "pack", fail # "write") IN
            /\ conn' = "open"
            /\ tsigRequestMAC' = w.mac
            /\ inErr' = w.err
            /\ IF w.err # Nil
               THEN /\ env' = "nil"
                    /\ kind' = "none"
                    /\ pc' = "none"
               ELSE /\ env' = "open"
                    /\ kind' = CASE q.Question[1] = TypeAXFR -> "axfr"
                                 [] q.Question[1] = TypeIXFR -> "ixfr"
                                 [] OTHER -> "none"
                    /\ pc' = IF q.Question[1] \in {TypeAXFR, TypeIXFR} THEN "loop" ELSE "none"
    /\ inTsig' = FALSE
    /\ UNCHANGED <<TsigSecret, tsigTimersOnly, rt, srv>>

\* inAxfr from the top of its loop to the send it blocks in
AxfrLoop ==
    /\ pc = "loop"
    /\ kind = "axfr"
    /\ \E rd \in ReadOutcomes(tsigRequestMAC, tsigTimersOnly, Len(reads)) :
        LET r == ReadMsg(rd, TsigSecret, tsigRequestMAC, tsigTimersOnly)
            s == inAxfr(id, first, r.timersOnly, r)
        IN  /\ reads' = Append(reads, Seen(r))
            /\ inTsig' = (IsTsig(r.m) # NoTsig)
            /\ tsigRequestMAC' = r.mac
            /\ first' = s.first
            /\ tsigTimersOnly' = s.timersOnly
            /\ sending' = s.env
            /\ ret' = s.ret
            /\ pc' = "send"
    /\ UNCHANGED <<TsigSecret, conn, env, inErr, kind, id, serial,
                   panicking, delivered, closes, transfer, rt, srv>>

\* inIxfr from the top of its loop to the send it blocks in, or to the
\* panic that starts running its deferred calls
IxfrLoop ==
    /\ pc = "loop"
    /\ kind = "ixfr"
    /\ \E rd \in ReadOutcomes(tsigRequestMAC, tsigTimersOnly, Len(reads)) :
        LET r == ReadMsg(rd, TsigSecret, tsigRequestMAC, tsigTimersOnly)
            s == inIxfr(id, first, serial, r.timersOnly, r)
        IN  /\ reads' = Append(reads, Seen(r))
            /\ inTsig' = (~s.panic /\ IsTsig(r.m) # NoTsig)
            /\ tsigRequestMAC' = r.mac
            /\ first' = s.first
            /\ serial' = s.serial
            /\ tsigTimersOnly' = s.timersOnly
            /\ panicking' = s.panic
            /\ sending' = s.env
            /\ ret' = s.ret
            /\ pc' = IF s.panic THEN "closeChan" ELSE "send"
    /\ UNCHANGED <<TsigSecret, conn, env, inErr, kind, id,
                   delivered, closes, transfer, rt, srv>>

\* a send that does not wait for the consumer: the task goes on with the
\* envelope still in the channel
Receive_SendDoesNotWait ==
    /\ pc = "send"
    /\ sending' = NoEnvelope
    /\ pc' = IF ret THEN "closeChan" ELSE "loop"
    /\ inTsig' = FALSE
    /\ UNCHANGED <<TsigSecret, tsigTimersOnly, tsigRequestMAC, conn, env, inErr, kind, id,
                   first, serial, ret, panicking, reads, delivered, closes, transfer, rt,
                   srv>>

\* the consumer receives the envelope; the task goes on or returns
Receive ==
    /\ pc = "send"
    /\ delivered' = Append(delivered, sending)
    /\ sending' = NoEnvelope
    /\ pc' = IF ret THEN "closeChan" ELSE "loop"
    /\ inTsig' = FALSE
    /\ UNCHANGED <<TsigSecret, tsigTimersOnly, tsigRequestMAC, conn, env, inErr, kind, id,
                   first, serial, ret, panicking, reads, closes, transfer, rt, srv>>

\* deferred close(c): the deferred calls run last in, first out
CloseChan ==
    /\ pc = "closeChan"
    /\ env' = "closed"
    /\ closes' = closes + 1
    /\ pc' = "closeConn"
    /\ UNCHANGED <<TsigSecret, tsigTimersOnly, tsigRequestMAC, conn, inErr, kind, id,
                   first, serial, sending, ret, panicking, reads, delivered, transfer,
                   rt, inTsig, srv>>

\* deferred t.Close(); an unrecovered panic then ends the program
CloseConn ==
    /\ pc = "closeConn"
    /\ conn' = "closed"
    /\ pc' = IF panicking THEN "crashed" ELSE "done"
    /\ UNCHANGED <<TsigSecret, tsigTimersOnly, tsigRequestMAC, env, inErr, kind, id,
                   first, serial, sending, ret, panicking, reads, delivered, closes,
                   transfer, rt, inTsig, srv>>

CallIn ==
    \E q \in Queries, fail \in Failures : In(q, fail)

Next ==
    \/ CallIn
    \/ AxfrLoop
    \/ IxfrLoop
    \/ Receive
    \/ CloseChan
    \/ CloseConn

Spec == Init /\ [][Next]_vars

\* ------------------------------------------------- the channel on its own
\* chain states a Transfer can be in when a message is written
PriorMACs ==
    {NoMAC, TsigMAC(StripTsig(Pack(Msg(1, <<TypeAXFR>>, <<>>, NoTsig))), Secret, NoMAC, FALSE)}

\* the messages written
ChanMsgs ==
    {Msg(i, <<>>, a, ts) :
        i \in Ids, a \in Answers,
        ts \in {NoTsig, <<KnownKey, NoMAC>>, <<UnknownKey, NoMAC>>}}

InitChan ==
    /\ TsigSecret \in {NilSecrets, OneSecret}
    /\ tsigTimersOnly \in BOOLEAN
    /\ tsigRequestMAC \in PriorMACs
    /\ conn = "open"
    /\ env = "nil"
    /\ inErr = Nil
    /\ kind = "none"
    /\ id = 0
    /\ pc = "none"
    /\ first = TRUE
    /\ serial = 0
    /\ sending = NoEnvelope
    /\ ret = FALSE
    /\ panicking = FALSE
    /\ reads = <<>>
    /\ delivered = <<>>
    /\ closes = 0
    /\ transfer = "none"
    /\ rt = RtIdle
    /\ inTsig = FALSE
    /\ srv = SrvIdle

\* t.WriteMsg(m); rt keeps the message, the chain state it was written
\* under and the bytes handed to the connection
ChanWrite(m, packOK, writeOK) ==
    /\ rt.pc = "idle"
    /\ LET w == WriteMsg(m, TsigSecret, tsigRequestMAC, tsigTimersOnly, packOK, writeOK) IN
        /\ tsigRequestMAC' = w.mac
        /\ rt' = [rt EXCEPT !.pc = IF w.err = Nil THEN "written" ELSE "failed",
                            !.m = m,
                            !.mac = tsigRequestMAC,
                            !.timersOnly = tsigTimersOnly,
                            !.out = w.out,
                            !.res = [m |-> NilMsg, err |-> w.err]]
    /\ UNCHANGED <<TsigSecret, tsigTimersOnly, engine, srv>>

\* ReadMsg of a Transfer that has the same secrets and the chain state the
\* message was written under, its Read returning the bytes written
ChanRead ==
    /\ rt.pc = "written"
    /\ LET r == ReadMsg([n |-> 1, err |-> Nil, p |-> rt.out],
                        TsigSecret, rt.mac, rt.timersOnly) IN
        rt' = [rt EXCEPT !.pc = "read", !.res = [m |-> r.m, err |-> r.err]]
    /\ UNCHANGED <<TsigSecret, tsigTimersOnly, tsigRequestMAC, engine, srv>>

\* what t.Read can return to ReadMsg: the outcomes of a transfer, and signed
\* replies read together with an error
RawReads(requestMAC, timersOnly) ==
    ReadOutcomes(requestMAC, timersOnly, 0) \cup
    {[n |-> 1, err |-> ErrRead, p |-> p] :
        p \in BadWires(requestMAC, timersOnly) \cup
              {PeerSign(Pack(Msg(1, <<>>, <<SOA(5)>>, NoTsig)), "good", requestMAC, timersOnly)}}

\* t.ReadMsg() on the outcome rd of t.Read; rt keeps rd, the chain state
\* before the call and the result
ChanReadRaw(rd) ==
    /\ rt.pc = "idle"
    /\ LET r == ReadMsg(rd, TsigSecret, tsigRequestMAC, tsigTimersOnly) IN
        /\ tsigRequestMAC' = r.mac
        /\ tsigTimersOnly' = r.timersOnly
        /\ rt' = [rt EXCEPT !.pc = "raw",
                            !.mac = tsigRequestMAC,
                            !.timersOnly = tsigTimersOnly,
                            !.rd = rd,
                            !.res = [m |-> r.m, err |-> r.err]]
    /\ UNCHANGED <<TsigSecret, engine, srv>>

CallChanReadRaw ==
    \E rd \in RawReads(tsigRequestMAC, tsigTimersOnly) : ChanReadRaw(rd)

CallChanWrite ==
    \E m \in ChanMsgs, packOK \in BOOLEAN, writeOK \in BOOLEAN : ChanWrite(m, packOK, writeOK)

NextChan ==
    \/ CallChanWrite
    \/ ChanRead
    \/ CallChanReadRaw

SpecChan == InitChan /\ [][NextChan]_vars

\* ------------------------------------------------------------ Transfer.Out
\* the envelopes a producer sends: record batches, one of them with an error
OutEnvelopes ==
    {Envelope(b, Nil) : b \in {<<>>, <<SOA(5)>>, <<OtherRR>>, <<SOA(5), OtherRR>>}}
        \cup {Envelope(<<SOA(6)>>, ErrSoa)}

\* r.Answer = x.RR, the reply rebuilt for every envelope
OutAppend_Reset(answer, x) == x.RR

\* r.Answer = append(r.Answer, x.RR...)
OutAppend(answer, x) == answer \o x.RR

\* the task returns when the write failed and ranges on otherwise
OutAfterWrite(err) == IF err # Nil THEN "returned" ELSE "range"

\* Out: r := new(Msg), r.SetReply(q), and the task is started
Out ==
    /\ srv.pc = "idle"
    /\ srv' = [srv EXCEPT !.pc = "range", !.Answer = <<>>]
    /\ UNCHANGED <<TsigSecret, tsigTimersOnly, tsigRequestMAC, engine, rt>>

\* the producer starts a send on ch and blocks in it
Produce(x) ==
    /\ srv.ch = "open"
    /\ srv.pending = <<>>
    /\ srv.nsent < MaxEnvelopes
    /\ srv' = [srv EXCEPT !.pending = <<x>>, !.nsent = srv.nsent + 1]
    /\ UNCHANGED <<TsigSecret, tsigTimersOnly, tsigRequestMAC, engine, rt>>

\* the producer closes ch
CloseSource ==
    /\ srv.ch = "open"
    /\ srv.pending = <<>>
    /\ srv' = [srv EXCEPT !.ch = "closed"]
    /\ UNCHANGED <<TsigSecret, tsigTimersOnly, tsigRequestMAC, engine, rt>>

\* for x := range ch receives the envelope the producer is sending and
\* appends its records to the reply
OutReceive ==
    /\ srv.pc = "range"
    /\ srv.pending # <<>>
    /\ srv' = [srv EXCEPT !.pc = "write",
                          !.pending = <<>>,
                          !.received = Append(srv.received, srv.pending[1]),
                          !.Answer = OutAppend(srv.Answer, srv.pending[1])]
    /\ UNCHANGED <<TsigSecret, tsigTimersOnly, tsigRequestMAC, engine, rt>>

\* w.WriteMsg(r) under the mode the writer is in, and the test of its error
OutWrite(writeOK) ==
    /\ srv.pc = "write"
    /\ LET err == IF writeOK THEN Nil ELSE ErrWrite IN
        srv' = [srv EXCEPT !.pc = OutAfterWrite(err),
                           !.writes = Append(srv.writes,
                                             [Answer     |-> srv.Answer,
                                              timersOnly |-> srv.timersOnly,
                                              err        |-> err])]
    /\ UNCHANGED <<TsigSecret, tsigTimersOnly, tsigRequestMAC, engine, rt>>

\* range finds ch closed: w.TsigTimersOnly(true), r.Answer = nil
OutEnd ==
    /\ srv.pc = "range"
    /\ srv.ch = "closed"
    /\ srv' = [srv EXCEPT !.pc = "done", !.timersOnly = TRUE, !.Answer = <<>>]
    /\ UNCHANGED <<TsigSecret, tsigTimersOnly, tsigRequestMAC, engine, rt>>

CallProduce ==
    \E x \in OutEnvelopes : Produce(x)

CallOutWrite ==
    \E writeOK \in BOOLEAN : OutWrite(writeOK)

NextOut ==
    \/ Out
    \/ CallProduce
    \/ CloseSource
    \/ OutReceive
    \/ CallOutWrite
    \/ OutEnd

SpecOut == Init /\ [][NextOut]_vars

\* ------------------------------------------------------------- properties
\* the answer section a starts, or ends, with a SOA record
StartsWithSOA(a) == Len(a) > 0 /\ a[1].Rrtype = TypeSOA
EndsWithSOA(a) == Len(a) > 0 /\ a[Len(a)].Rrtype = TypeSOA

\* reply i was read without error and carries the query's id
Matches(i) == reads[i].err = Nil /\ reads[i].Id = id

\* replies 1..j were all read without error and carry the query's id
OkUpTo(j) == \A i \in 1..j : Matches(i)

\* the task has left its loop for good
Ended == pc \in {"closeChan", "closeConn", "done", "crashed"}

\* the task is ending: blocked in its last send, or past it
Ending == (pc = "send" /\ ret) \/ Ended

\* the consumer has got, or is about to get, one envelope per reply read so
\* far, envelope i holding the answer section of reply i and no error
OneEnvelopePerReply ==
    /\ \A i \in 1..Len(delivered) : delivered[i] = Envelope(reads[i].Answer, Nil)
    /\ IF pc = "send"
       THEN /\ Len(delivered) = Len(reads) - 1
            /\ sending = Envelope(reads[Len(reads)].Answer, Nil)
       ELSE Len(delivered) = Len(reads)

\* reply j is the last one read, and it ended the transfer with one last
\* envelope holding its answer section and the error err
LastEnvelope(j, err) ==
    /\ Len(reads) = j
    /\ ~panicking
    /\ IF pc = "send"
       THEN /\ ret
            /\ sending = Envelope(reads[j].Answer, err)
            /\ Len(delivered) = j - 1
       ELSE /\ pc \in {"closeChan", "closeConn", "done"}
            /\ Len(delivered) = j
            /\ delivered[j] = Envelope(reads[j].Answer, err)
    /\ (pc = "done" => (conn = "closed" /\ env = "closed"))

\* in inAxfr reply i ends the transfer: its last record is a SOA, and it is
\* not a first reply of exactly one record
AxfrEnds(i) == EndsWithSOA(reads[i].Answer) /\ ~(i = 1 /\ Len(reads[1].Answer) = 1)

\* C1: in inAxfr, while every reply is read without error, carries the
\* query's id and the first one starts with a SOA, the transfer ends at the
\* earliest reply whose last record is a SOA (a first reply of exactly one
\* record excepted): no reply is read after it, reply i is delivered as
\* envelope i with its answer section and no error, and the stream is closed
\* after the last one.
C1_AxfrEndsAtFirstTrailingSOA ==
    \A j \in 1..Len(reads) :
        (kind = "axfr" /\ OkUpTo(j) /\ StartsWithSOA(reads[1].Answer)) =>
            /\ AxfrEnds(j) => Len(reads) = j
            /\ (j = Len(reads)) =>
                /\ ~panicking
                /\ OneEnvelopePerReply
                /\ AxfrEnds(j) <=> Ending
                /\ ~AxfrEnds(j) => (pc \in {"loop", "send"})
                /\ pc \in {"closeConn", "done"} => (env = "closed" /\ closes = 1)

C1_Witness ==
    /\ kind = "axfr"
    /\ pc = "done"
    /\ Len(reads) = 3
    /\ OkUpTo(3)
    /\ reads[1].Answer = <<SOA(5)>>
    /\ reads[2].Answer = <<OtherRR, OtherRR>>
    /\ reads[3].Answer = <<OtherRR, SOA(5)>>
    /\ Len(delivered) = 3
    /\ env = "closed"

\* C2: in inAxfr and inIxfr, a reply read without error whose id differs
\* from the query's is the last reply read; exactly one more envelope is
\* delivered, with that reply's answer section and ErrId, whatever the
\* answer section holds, and the connection and the stream are closed.
C2_IdMismatchEndsTransfer ==
    \A j \in 1..Len(reads) :
        (reads[j].err = Nil /\ reads[j].Id # id) => LastEnvelope(j, ErrId)

C2_Witness ==
    /\ kind = "ixfr"
    /\ pc = "done"
    /\ Len(reads) = 2
    /\ Matches(1)
    /\ reads[2].err = Nil
    /\ reads[2].Id # id
    /\ reads[2].Answer = <<>>
    /\ delivered[2] = Envelope(<<>>, ErrId)
    /\ conn = "closed"
    /\ env = "closed"

\* C3: in inAxfr and inIxfr, a first reply with the query's id whose answer
\* section is empty or does not start with a SOA ends the transfer: the one
\* envelope delivered holds its answer section and ErrSoa, and the
\* connection and the stream are closed.
C3_MissingSOAEndsTransfer ==
    (Len(reads) > 0 /\ Matches(1) /\ ~StartsWithSOA(reads[1].Answer)) => LastEnvelope(1, ErrSoa)

C3_Witness ==
    /\ kind = "ixfr"
    /\ pc = "done"
    /\ Matches(1)
    /\ reads[1].Answer = <<>>
    /\ delivered = <<Envelope(<<>>, ErrSoa)>>
    /\ conn = "closed"
    /\ env = "closed"

\* C4: in inIxfr, a first reply with the query's id whose answer section is
\* exactly one SOA ends the transfer: the one envelope delivered holds that
\* SOA and no error, no second reply is read, and the task's next step
\* closes the stream.
C4_IxfrNoChange ==
    (kind = "ixfr" /\ Len(reads) > 0 /\ Matches(1)
        /\ Len(reads[1].Answer) = 1 /\ StartsWithSOA(reads[1].Answer)) =>
            /\ LastEnvelope(1, Nil)
            /\ (pc \in {"closeConn", "done"} => closes = 1)

C4_Witness ==
    /\ kind = "ixfr"
    /\ pc = "done"
    /\ Matches(1)
    /\ reads[1].Answer = <<SOA(5)>>
    /\ delivered = <<Envelope(<<SOA(5)>>, Nil)>>
    /\ env = "closed"

\* in inIxfr reply i ends with a SOA of the serial of the first reply's
\* first record
IxfrEnds(i) ==
    LET a == reads[i].Answer IN
    Len(a) > 0 /\ a[Len(a)] = SOA(reads[1].Answer[1].Serial)

\* C5: in inIxfr, after a first reply that starts with a SOA of serial s, has
\* two or more records and does not end with a SOA of serial s, the transfer
\* ends exactly at the earliest later reply whose last record is a SOA of
\* serial s; every earlier reply is delivered as a non-terminal envelope with
\* its answer section and no error, and the recorded serial stays s.
C5_IxfrEndsAtMatchingSerial ==
    \A j \in 1..Len(reads) :
        (kind = "ixfr" /\ OkUpTo(j) /\ StartsWithSOA(reads[1].Answer)
            /\ Len(reads[1].Answer) >= 2 /\ ~IxfrEnds(1)) =>
            /\ serial = reads[1].Answer[1].Serial
            /\ IxfrEnds(j) => Len(reads) = j
            /\ (j = Len(reads)) =>
                /\ ~panicking
                /\ OneEnvelopePerReply
                /\ IxfrEnds(j) <=> Ending
                /\ ~IxfrEnds(j) => (pc \in {"loop", "send"})

\* the prior MAC and the mode a MAC was generated with
MACPrior(mac) == mac[2]
MACTimersOnly(mac) == mac[3]

\* C6: t.tsigTimersOnly is never set back to false; in every transfer it is
\* false while In writes the query and while the first reply is read, and
\* true while any later reply is read.
C6_TimersOnlyPerTransfer ==
    [][/\ tsigTimersOnly => tsigTimersOnly'
       /\ (pc \in {"none", "done"} /\ conn' = "open") => ~tsigTimersOnly
       /\ (pc = "loop" /\ Len(reads) = 0) => ~tsigTimersOnly
       /\ (pc = "loop" /\ Len(reads) > 0) => tsigTimersOnly]_vars

\* C7: the signed query In writes on the connection it has just opened is
\* generated with an empty prior MAC and with timersOnly = false.
C7_QueryInFullMode ==
    tsigRequestMAC # NoMAC =>
        (MACPrior(tsigRequestMAC) = NoMAC /\ MACTimersOnly(tsigRequestMAC) = FALSE)

\* the message on its way carries a TSIG record whose key has a secret in
\* the table
Keyed(m) ==
    /\ IsTsig(m) # NoTsig
    /\ ~TsigSecret.isnil
    /\ IsTsig(m)[1] \in DOMAIN TsigSecret.tab

\* C8: a message with a TSIG record under a key of the table that WriteMsg
\* wrote without error is read back by ReadMsg, under the chain state it was
\* written under, without error and with the same answer section.
C8_RoundTrip ==
    (rt.pc = "read" /\ Keyed(rt.m)) =>
        (rt.res.err = Nil /\ ~rt.res.m.isnil /\ rt.res.m.Answer = rt.m.Answer)

C8_Witness ==
    /\ rt.pc = "read"
    /\ Keyed(rt.m)
    /\ rt.mac # NoMAC
    /\ rt.timersOnly
    /\ rt.m.Answer = <<SOA(5), OtherRR>>
    /\ rt.res.err = Nil
    /\ rt.res.m.Answer = <<SOA(5), OtherRR>>

\* C9: in every stream of inAxfr and inIxfr only the last envelope may carry
\* an error, it is sent by a task that then returns, nothing is sent once the
\* task has left its loop, and the stream is closed once, after the last
\* envelope.
C9_StreamShape ==
    /\ \A i \in 1..Len(delivered) :
          delivered[i].Error # Nil => (i = Len(delivered) /\ Ended)
    /\ (pc = "send" /\ sending.Error # Nil) => ret
    /\ pc \in {"loop", "send", "closeChan"} => (env = "open" /\ closes = 0)
    /\ pc \in {"closeConn", "done", "crashed"} => (env = "closed" /\ closes = 1)
    /\ closes <= 1

C9_Witness ==
    /\ kind = "axfr"
    /\ pc = "done"
    /\ Len(delivered) = 3
    /\ delivered[1].Error = Nil
    /\ delivered[2].Error = Nil
    /\ delivered[3].Error = ErrId
    /\ closes = 1

\* C10: the stream is never closed while the connection is still open.
C10_ConnClosedBeforeStream ==
    env = "closed" => conn = "closed"

\* the records of the envelopes es, in order
RECURSIVE Records(_)
Records(es) ==
    IF es = <<>> THEN <<>> ELSE Records(SubSeq(es, 1, Len(es) - 1)) \o es[Len(es)].RR

\* C11: Out writes one reply for each envelope it receives, in the order
\* received and before it receives the next, and the k-th reply written
\* carries the records of the envelopes 1..k, concatenated.
C11_RepliesAccumulate ==
    /\ Len(srv.writes) = Len(srv.received) - (IF srv.pc = "write" THEN 1 ELSE 0)
    /\ \A k \in 1..Len(srv.writes) :
          srv.writes[k].Answer = Records(SubSeq(srv.received, 1, k))

C11_Witness ==
    /\ Len(srv.writes) = 3
    /\ srv.received[1].RR = <<SOA(5)>>
    /\ srv.received[2].RR = <<OtherRR>>
    /\ srv.received[3].RR = <<SOA(5), OtherRR>>
    /\ srv.writes[3].Answer = <<SOA(5), OtherRR, SOA(5), OtherRR>>

\* C12: the task of Out keeps receiving until the producer has closed the
\* source, also after a failed write: while the source is open, or an
\* envelope is being sent on it, the task has not stopped.
C12_KeepsReceiving ==
    (srv.ch = "open" \/ srv.pending # <<>>) => srv.pc \in {"idle", "range", "write"}

\* envelope i is the envelope of reply i: it carries the reply's read error,
\* and the reply's records, or none when it carries an error
EnvelopeOf(i) ==
    /\ delivered[i].RR \in {reads[i].Answer, <<>>}
    /\ reads[i].err # Nil => delivered[i].Error = reads[i].err
    /\ delivered[i].Error = Nil =>
          (reads[i].err = Nil /\ delivered[i].RR = reads[i].Answer)

\* C13: the stream has no buffer: the task reads reply k+1 only after the
\* consumer has received the envelope of reply k, at most one envelope is
\* produced and not yet received, and envelopes are received in the order of
\* the replies.
C13_Backpressure ==
    /\ pc = "loop" => Len(reads) = Len(delivered)
    /\ pc = "send" => Len(reads) = Len(delivered) + 1
    /\ Len(reads) - Len(delivered) \in {0, 1}
    /\ Len(reads) # Len(delivered) => (pc = "send" \/ panicking)
    /\ \A i \in 1..Len(delivered) : EnvelopeOf(i)

C13_Witness ==
    /\ pc = "send"
    /\ Len(reads) = 3
    /\ Len(delivered) = 2
    /\ delivered[1].RR = <<SOA(5)>>
    /\ delivered[2].RR = <<OtherRR, OtherRR>>
    /\ sending.RR = <<OtherRR, SOA(6)>>

\* the bytes t.Read returned decode to a message with a TSIG record, and
\* the Transfer has a secret table
SignedRead(rd) ==
    /\ ~(rd.err # Nil /\ rd.n = 0)
    /\ Unpack(rd.p).err = Nil
    /\ rd.p.ar # NoTsig
    /\ ~TsigSecret.isnil

\* C14: ReadMsg on a message with a TSIG record, with a secret table: a key
\* without an entry gives ErrSecret; otherwise the error returned is the
\* result of verifying the bytes read with the key's secret, the prior MAC
\* and the timersOnly flag of the Transfer.  Whatever the outcome, the prior
\* MAC and the timersOnly flag are as they were before the call.
C14_ReadMsgOutcomes ==
    rt.pc = "raw" =>
        /\ tsigRequestMAC = rt.mac
        /\ tsigTimersOnly = rt.timersOnly
        /\ SignedRead(rt.rd) =>
              /\ ~rt.res.m.isnil
              /\ rt.res.err =
                    IF rt.rd.p.ar[1] \notin DOMAIN TsigSecret.tab
                    THEN ErrSecret
                    ELSE TsigVerify(rt.rd.p, TsigSecret.tab[rt.rd.p.ar[1]],
                                    rt.mac, rt.timersOnly)

C14_Witness ==
    /\ rt.pc = "raw"
    /\ SignedRead(rt.rd)
    /\ rt.rd.err = ErrRead
    /\ rt.rd.p.ar[1] = KnownKey
    /\ rt.res.err = Nil
    /\ rt.mac # NoMAC
    /\ rt.timersOnly
    /\ tsigRequestMAC = rt.mac

\* reply j is the last one read, and it ended the transfer normally with
\* one last envelope that holds no records and the error of the read
FailedReadEnds(j) ==
    /\ Len(reads) = j
    /\ ~panicking
    /\ IF pc = "send"
       THEN /\ ret
            /\ sending = Envelope(<<>>, reads[j].err)
            /\ Len(delivered) = j - 1
       ELSE /\ pc \in {"closeChan", "closeConn", "done"}
            /\ Len(delivered) = j
            /\ delivered[j] = Envelope(<<>>, reads[j].err)
    /\ (pc = "done" => (conn = "closed" /\ env = "closed"))

\* C15: in inIxfr, as in inAxfr, a read that returns an error ends the
\* transfer with one terminal envelope that carries no records and that
\* error; the task stops normally and the connection and the stream are
\* closed.
C15_IxfrFailedReadEnds ==
    \A j \in 1..Len(reads) :
        (kind = "ixfr" /\ reads[j].err # Nil) => FailedReadEnds(j)

\* the first reply of an inIxfr transfer was read without error, carries the
\* query's id, starts with a SOA and has two or more records, and no other
\* reply has been read
IxfrFirstReplyLong ==
    /\ kind = "ixfr"
    /\ Len(reads) = 1
    /\ Matches(1)
    /\ StartsWithSOA(reads[1].Answer)
    /\ Len(reads[1].Answer) >= 2

\* C16 as stated: in inIxfr a first reply that starts with a SOA and has two
\* or more records only has its serial recorded and never ends the transfer,
\* whatever its last record is.
C16_FirstReplyNeverEnds ==
    IxfrFirstReplyLong =>
        /\ serial = reads[1].Answer[1].Serial
        /\ ~Ending
        /\ pc \in {"loop", "send"}

\* C16: in inIxfr a first reply that starts with a SOA and has two or more
\* records has its serial recorded and is then tested as every later reply
\* is: timersOnly is set, and the reply ends the transfer, as the terminal
\* envelope with its records and no error, exactly when its last record is a
\* SOA of the serial of its first record.
C16_FirstReplyTestedLikeLater ==
    IxfrFirstReplyLong =>
        /\ serial = reads[1].Answer[1].Serial
        /\ tsigTimersOnly
        /\ ~panicking
        /\ OneEnvelopePerReply
        /\ IxfrEnds(1) <=> Ending
        /\ ~IxfrEnds(1) => (pc \in {"loop", "send"})

C16_Witness ==
    /\ IxfrFirstReplyLong
    /\ reads[1].Answer = <<SOA(5), SOA(5)>>
    /\ pc = "done"
    /\ delivered = <<Envelope(<<SOA(5), SOA(5)>>, Nil)>>
    /\ env = "closed"

\* C17: every reply Out writes after the first is written with the response
\* writer in timers-only mode.
C17_LaterRepliesTimersOnly ==
    \A k \in 2..Len(srv.writes) : srv.writes[k].timersOnly

\* C18: every stream In has returned has a task that feeds it, whatever the
\* query type: a stream that is open belongs to a task that has not yet run
\* its deferred close.
C18_StreamHasTask ==
    env = "open" => pc \in {"loop", "send", "closeChan"}

\* C19: with a secret table, an envelope is handed to the consumer with no
\* error only for a reply that carried a TSIG record (which ReadMsg then
\* verified); a reply without a TSIG record is never delivered as a success.
C19_SuccessOnlyIfSigned ==
    (pc = "send" /\ sending.Error = Nil /\ ~TsigSecret.isnil) => inTsig

\* C20: inIxfr handles every reply read without error without a fault; a
\* reply after the first with the query's id and an empty answer section is
\* delivered as a non-terminal envelope with no records and no error, and
\* the transfer goes on.
C20_IxfrNoFault ==
    \A j \in 1..Len(reads) :
        (kind = "ixfr" /\ j = Len(reads) /\ reads[j].err = Nil) =>
            /\ ~panicking
            /\ (j >= 2 /\ OkUpTo(j) /\ reads[j].Answer = <<>>) =>
                  /\ OneEnvelopePerReply
                  /\ pc \in {"loop", "send"}
                  /\ pc = "send" => ~ret

====
